---- MODULE Spec2Model ----
(***************************************************************************)
(* Model of src/server.js: the in-memory room table of the SnapChaos       *)
(* socket server and the socket.io event handlers that mutate it.          *)
(*                                                                         *)
(* One action per handler.  Node runs each handler to completion on one    *)
(* thread, so a handler is one atomic step.                                *)
(***************************************************************************)
EXTENDS Integers, Sequences, FiniteSets, TLC

(***************************************************************************)
(* Input domains.                                                          *)
(***************************************************************************)
\* socket.id values
Sids == {"s1", "s2", "s3", "s4"}
\* the connections of a run of Spec
Clients == {"s1", "s2"}
\* the connections of a run of SpecLobby
Members == {"s1", "s2", "s3"}
\* room codes: what nanoid(4).toUpperCase() may return, what join_room may name
Codes == {"AB12", "CD34"}
\* JS null and undefined
Null == "null"
Undefined == "undefined"
\* the `name` field of create_room / join_room
Names == {"Ann"}
\* the `mode` field of start_round
Modes == {"classic"}
\* the `durationSec` field of start_round: << >> is a missing field
Durations == {<< >>, <<0>>, <<-5>>, <<20>>}
\* the values Date.now() returns (milliseconds)
Times == {100000}
\* the array PROMPTS imported from ./prompts.js
PROMPTS == <<"p1", "p2">>
\* the `dataURL` field of submit_photo
DataURLs == {"img1", "img2"}
\* a property name every plain JS object inherits from Object.prototype
ProtoKey == "toString"
\* the values of the `targetSid` field of vote_best / flag_lazy: a client may
\* send any string
Targets == Sids \cup {ProtoKey}
\* the values of `targetSid` the clients of a run of Spec send
SentTargets == {"s1", "s2", ProtoKey}
\* a voter without an entry in room.votes
NoVote == "-"

(***************************************************************************)
(* Bounds of the model.                                                    *)
(***************************************************************************)
\* a run handles at most MaxEvents events
MaxEvents == 4

VARIABLES
    rooms,      \* the Map `rooms`: code -> room object (DOMAIN = the keys)
    open,       \* the connections that have not disconnected yet
    steps,      \* history: the number of events handled so far
    joinOrder,  \* history: code -> the connected sockets that sent create_room or
                \* join_room for the code, in the order of their first such event
    voteCasts,  \* history: code -> socket -> the number of vote_best events of
                \* the socket the room handled since its last start_round
    flagCasts,  \* history: code -> target -> socket -> the number of flag_lazy
                \* events of the socket against the target the room handled
                \* since its last start_round
    scorings,   \* history: code -> the number of end_round events that changed a
                \* score of the room since its last start_round
    ev,         \* the event handled by the last step
    ack,        \* what the last handler passed to its callback cb
    out         \* the broadcasts io.to(code).emit(..) of the last handler

vars == <<rooms, open, steps, joinOrder, voteCasts, flagCasts, scorings, ev, ack, out>>

\* the record of an event: the event name, the socket it came from, the `code`
\* field of its payload; ran: its handler ran past its guard (a handler that
\* returns early reads no other field); args: the other fields the handler read
\* (for disconnect, which has no payload: the codes of the rooms the socket hosted)
Event(op, s, code) == [op |-> op, sid |-> s, code |-> code, ran |-> FALSE, args |-> << >>]

\* no event was handled yet
NoEvent == Event("none", Undefined, Undefined)

\* history of a round without vote_best / flag_lazy events
NoVoteCasts == [s \in Sids |-> 0]
NoFlagCasts == [t \in Targets |-> [s \in Sids |-> 0]]

NoAck == [called |-> FALSE]
Acked(v) == [called |-> TRUE, value |-> v]

(***************************************************************************)
(* Helpers for ordered collections (JS Map / Array).                       *)
(***************************************************************************)
\* the indices of the entries of sequence s whose sid is id
IdxOf(s, id) == {i \in 1..Len(s) : s[i].sid = id}

\* Map.prototype.has on room.players
HasPlayer(room, id) == IdxOf(room.players, id) # {}

\* the keys of room.players, as a set
PlayerSids(room) == {room.players[i].sid : i \in 1..Len(room.players)}

\* a || d for a string a
OrDefault(a, d) == IF a \in {"", Undefined, Null} THEN d ELSE a

\* Map.prototype.set on room.players: a new key is appended, an existing key
\* keeps its position and gets the new value
PlayersSet(players, id, p) ==
    IF IdxOf(players, id) = {}
    THEN Append(players, [sid |-> id, name |-> p.name, score |-> p.score])
    ELSE [i \in 1..Len(players) |->
            IF players[i].sid = id
            THEN [sid |-> id, name |-> p.name, score |-> p.score]
            ELSE players[i]]

\* Map.prototype.delete on room.players: the other entries keep their order
PlayersDelete(players, id) ==
    SelectSeq(players, LAMBDA p : p.sid # id)

(***************************************************************************)
(* ensureRoom, serializeRoom, serializeScores                              *)
(***************************************************************************)
\* the object ensureRoom stores for a new code (deadline: << >> is null, <<t>> is
\* the timestamp t; votes: NoVote marks a missing key; rejections: {} a missing key)
NewRoom(code) ==
    [code        |-> code,
     hostId      |-> Null,
     players     |-> << >>,
     mode        |-> Null,
     round       |-> 0,
     prompt      |-> Null,
     deadline    |-> << >>,
     submissions |-> << >>,
     votes       |-> [s \in Sids |-> NoVote],
     rejections  |-> [t \in Targets |-> {}]]

\* rooms.has(code)
HasRoom(code) == code \in DOMAIN rooms

\* the table after ensureRoom(code)
ensureRoom(code) ==
    IF HasRoom(code) THEN rooms
    ELSE [c \in DOMAIN rooms \cup {code} |->
            IF c = code THEN NewRoom(code) ELSE rooms[c]]

\* the table with room `code` replaced by r
PutRoom(table, code, r) == [table EXCEPT ![code] = r]

serializeRoom(room) ==
    [code    |-> room.code,
     hostId  |-> room.hostId,
     players |-> room.players,
     mode    |-> room.mode,
     round   |-> room.round]

serializeScores(room) == room.players

Emit(code, event, payload) == [to |-> code, event |-> event, payload |-> payload]

(***************************************************************************)
(* Initial state: the process has started, the table is empty, the         *)
(* clients are connected and no event was handled yet.                     *)
(***************************************************************************)
Init ==
    /\ rooms = [c \in {} |-> NewRoom(c)]
    /\ open = Clients
    /\ steps = 0
    /\ joinOrder = [c \in Codes |-> << >>]
    /\ voteCasts = [c \in Codes |-> NoVoteCasts]
    /\ flagCasts = [c \in Codes |-> NoFlagCasts]
    /\ scorings = [c \in Codes |-> 0]
    /\ ev = NoEvent
    /\ ack = NoAck
    /\ out = {}

\* a run handles at most MaxEvents events
Counted == steps < MaxEvents /\ steps' = steps + 1

\* history of first joins: id is appended once
NoteJoin(code, id) ==
    joinOrder' = [joinOrder EXCEPT ![code] =
                    IF \E i \in 1..Len(@) : @[i] = id THEN @ ELSE Append(@, id)]

(***************************************************************************)
(* socket.on("create_room")                                                *)
(* `code` is the value nanoid(4).toUpperCase() returns: any code, also one *)
(* that is a key of `rooms` already (ensureRoom then returns that room).   *)
(***************************************************************************)
CreateRoom(s, name, code) ==
    /\ s \in open
    /\ Counted
    /\ LET table == ensureRoom(code)
           room0 == table[code]
           room1 == [room0 EXCEPT !.hostId = s]
           room2 == [room1 EXCEPT !.players =
                        PlayersSet(@, s, [name |-> OrDefault(name, "Host"), score |-> 0])]
       IN /\ rooms' = PutRoom(table, code, room2)
          /\ ack' = Acked([code |-> code])
          /\ out' = {Emit(code, "room_update", serializeRoom(room2))}
    /\ NoteJoin(code, s)
    /\ ev' = [Event("create_room", s, code) EXCEPT !.ran = TRUE, !.args = <<name>>]
    /\ UNCHANGED <<open, voteCasts, flagCasts, scorings>>

(***************************************************************************)
(* socket.on("join_room")                                                  *)
(***************************************************************************)
JoinRoom(s, code, name) ==
    /\ s \in open
    /\ Counted
    /\ LET table == ensureRoom(code)
           room0 == table[code]
           room1 == [room0 EXCEPT !.players =
                        PlayersSet(@, s, [name |-> OrDefault(name, "Guest"), score |-> 0])]
           room2 == IF room1.hostId = Null THEN [room1 EXCEPT !.hostId = s] ELSE room1
       IN /\ rooms' = PutRoom(table, code, room2)
          /\ ack' = Acked([ok |-> TRUE, room |-> serializeRoom(room2)])
          /\ out' = {Emit(code, "room_update", serializeRoom(room2))}
    /\ NoteJoin(code, s)
    /\ ev' = [Event("join_room", s, code) EXCEPT !.ran = TRUE, !.args = <<name>>]
    /\ UNCHANGED <<open, voteCasts, flagCasts, scorings>>

(***************************************************************************)
(* socket.on("disconnect")                                                 *)
(***************************************************************************)
\* a host migration that takes the last key instead of the first
NextHostLast(players) ==
    IF Len(players) = 0 THEN Null ELSE players[Len(players)].sid

\* const [nextHost] = room.players.keys(); nextHost || null
NextHost(players) == IF Len(players) = 0 THEN Null ELSE players[1].sid

\* a disconnect that forgets the host: the player is deleted, hostId is kept
DisconnectRoomKeepHost(room, s) ==
    IF HasPlayer(room, s)
    THEN [room EXCEPT !.players = PlayersDelete(@, s)]
    ELSE room

\* a disconnect that recycles a room left by its last player: the room object is
\* replaced by a fresh one
DisconnectRoomRecycle(room, s) ==
    IF HasPlayer(room, s)
    THEN LET room1 == [room EXCEPT !.players = PlayersDelete(@, s)]
         IN IF Len(room1.players) = 0 THEN NewRoom(room.code)
            ELSE IF room1.hostId = s
                 THEN [room1 EXCEPT !.hostId = NextHost(room1.players)]
                 ELSE room1
    ELSE room

\* the body of the loop over rooms.values() for one room
DisconnectRoom(room, s) ==
    IF HasPlayer(room, s)
    THEN LET room1 == [room EXCEPT !.players = PlayersDelete(@, s)]
         IN IF room1.hostId = s
            THEN [room1 EXCEPT !.hostId = NextHost(room1.players)]
            ELSE room1
    ELSE room

\* a loop that stops after the first room that holds the socket
DisconnectedFirstOnly(s) ==
    LET holding == {c \in DOMAIN rooms : HasPlayer(rooms[c], s)}
        first == CHOOSE c \in holding : TRUE
    IN [c \in DOMAIN rooms |->
          IF holding # {} /\ c = first THEN DisconnectRoom(rooms[c], s) ELSE rooms[c]]

\* the table after the loop over rooms.values()
Disconnected(s) == [c \in DOMAIN rooms |-> DisconnectRoom(rooms[c], s)]

Disconnect(s) ==
    /\ s \in open
    /\ Counted
    /\ open' = open \ {s}
    /\ rooms' = Disconnected(s)
    /\ out' = {Emit(c, "room_update", serializeRoom(Disconnected(s)[c])) :
                 c \in {d \in DOMAIN rooms : HasPlayer(rooms[d], s)}}
    /\ ack' = NoAck
    /\ ev' = [Event("disconnect", s, Undefined) EXCEPT
                !.ran = TRUE,
                !.args = <<{c \in DOMAIN rooms : rooms[c].hostId = s}>>]
    /\ joinOrder' = [c \in Codes |-> SelectSeq(joinOrder[c], LAMBDA x : x # s)]
    /\ UNCHANGED <<voteCasts, flagCasts, scorings>>

(***************************************************************************)
(* socket.on("leave_room"): server.js registers no listener for this       *)
(* event, so socket.io drops it: no handler runs, no callback is called.   *)
(***************************************************************************)
LeaveRoom(s, code) ==
    /\ s \in open
    /\ Counted
    /\ ev' = Event("leave_room", s, code)
    /\ ack' = NoAck
    /\ out' = {}
    /\ UNCHANGED <<rooms, open, joinOrder, voteCasts, flagCasts, scorings>>

(***************************************************************************)
(* socket.on("start_round")                                                *)
(***************************************************************************)
\* (durationSec || 30): a missing field and 0 are falsy, a negative number is not
DurationOrDefault(d) == IF d = << >> \/ d = <<0>> THEN 30 ELSE d[1]

\* Date.now() + (durationSec || 30) * 1000, with Date.now() = t
Deadline(t, d) == <<t + DurationOrDefault(d) * 1000>>

\* a guard that forgets the host check
AuthorizedAnyone(s, code) == HasRoom(code)

\* if (!room || room.hostId !== socket.id) return;
Authorized(s, code) == HasRoom(code) /\ rooms[code].hostId = s

\* a start that forgets to reset room.votes
StartedRoomKeepVotes(room, mode, d, t, k) ==
    [room EXCEPT !.mode = mode,
                 !.round = @ + 1,
                 !.prompt = PROMPTS[k],
                 !.deadline = Deadline(t, d),
                 !.submissions = << >>,
                 !.rejections = [x \in Targets |-> {}]]

\* the room after the assignments of lines 74-80; k is the index drawn by
\* Math.floor(Math.random() * PROMPTS.length)
StartedRoom(room, mode, d, t, k) ==
    [room EXCEPT !.mode = mode,
                 !.round = @ + 1,
                 !.prompt = PROMPTS[k],
                 !.deadline = Deadline(t, d),
                 !.submissions = << >>,
                 !.votes = [v \in Sids |-> NoVote],
                 !.rejections = [x \in Targets |-> {}]]

\* the payload fields mode and durationSec, the clock and the random index are
\* read after the guard only
StartRound(s, code) ==
    /\ s \in open
    /\ Counted
    /\ IF Authorized(s, code)
       THEN \E mode \in Modes, d \in Durations, t \in Times, k \in 1..Len(PROMPTS) :
            /\ ev' = [Event("start_round", s, code) EXCEPT
                        !.ran = TRUE, !.args = <<mode, d, t>>]
            /\ LET room1 == StartedRoom(rooms[code], mode, d, t, k)
               IN /\ rooms' = PutRoom(rooms, code, room1)
                  /\ out' = {Emit(code, "round_started",
                                [round |-> room1.round, mode |-> room1.mode,
                                 prompt |-> room1.prompt, deadline |-> room1.deadline])}
            /\ ack' = Acked([ok |-> TRUE])
            /\ voteCasts' = [voteCasts EXCEPT ![code] = NoVoteCasts]
            /\ flagCasts' = [flagCasts EXCEPT ![code] = NoFlagCasts]
            /\ scorings' = [scorings EXCEPT ![code] = 0]
       ELSE /\ ev' = Event("start_round", s, code)
            /\ rooms' = rooms
            /\ out' = {}
            /\ ack' = NoAck
            /\ UNCHANGED <<voteCasts, flagCasts, scorings>>
    /\ UNCHANGED <<open, joinOrder>>

(***************************************************************************)
(* socket.on("submit_photo")                                               *)
(***************************************************************************)
\* an upsert that re-inserts the caller's entry at the end
UpsertMove(subs, s, dataURL) ==
    Append(SelectSeq(subs, LAMBDA e : e.sid # s), [sid |-> s, dataURL |-> dataURL])

\* find + push / assignment to already.dataURL
Upsert(subs, s, dataURL) ==
    IF IdxOf(subs, s) = {}
    THEN Append(subs, [sid |-> s, dataURL |-> dataURL])
    ELSE LET first == CHOOSE i \in IdxOf(subs, s) : \A j \in IdxOf(subs, s) : i <= j
         IN [subs EXCEPT ![first].dataURL = dataURL]

SubmitPhoto(s, code, dataURL) ==
    /\ s \in open
    /\ Counted
    /\ ev' = IF HasRoom(code)
             THEN [Event("submit_photo", s, code) EXCEPT !.ran = TRUE, !.args = <<dataURL>>]
             ELSE Event("submit_photo", s, code)
    /\ IF HasRoom(code)
       THEN LET room1 == [rooms[code] EXCEPT !.submissions = Upsert(@, s, dataURL)]
            IN /\ rooms' = PutRoom(rooms, code, room1)
               /\ out' = {Emit(code, "submission_update",
                               [count |-> Len(room1.submissions)])}
               /\ ack' = Acked([ok |-> TRUE])
       ELSE /\ rooms' = rooms
            /\ out' = {}
            /\ ack' = NoAck
    /\ UNCHANGED <<open, joinOrder, voteCasts, flagCasts, scorings>>

(***************************************************************************)
(* socket.on("vote_best")                                                  *)
(***************************************************************************)
\* a count of the distinct targets instead of the voters
VotesSizeTargets(room) ==
    Cardinality({room.votes[v] : v \in {w \in Sids : room.votes[w] # NoVote}})

\* room.votes.size
VotesSize(room) == Cardinality({v \in Sids : room.votes[v] # NoVote})

VoteBest(s, code, targetSid) ==
    /\ s \in open
    /\ Counted
    /\ ev' = IF HasRoom(code)
             THEN [Event("vote_best", s, code) EXCEPT !.ran = TRUE, !.args = <<targetSid>>]
             ELSE Event("vote_best", s, code)
    /\ IF HasRoom(code)
       THEN LET room1 == [rooms[code] EXCEPT !.votes[s] = targetSid]
            IN /\ rooms' = PutRoom(rooms, code, room1)
               /\ out' = {Emit(code, "vote_update", [votes |-> VotesSize(room1)])}
               /\ ack' = Acked([ok |-> TRUE])
               /\ voteCasts' = [voteCasts EXCEPT ![code][s] = @ + 1]
       ELSE /\ rooms' = rooms
            /\ out' = {}
            /\ ack' = NoAck
            /\ voteCasts' = voteCasts
    /\ UNCHANGED <<open, joinOrder, flagCasts, scorings>>

(***************************************************************************)
(* socket.on("flag_lazy")                                                  *)
(***************************************************************************)
\* a flag that toggles: a second flag_lazy of the caller withdraws the first
FlaggedToggle(rejections, targetSid, s) ==
    [rejections EXCEPT ![targetSid] = IF s \in @ THEN @ \ {s} ELSE @ \cup {s}]

\* lines 111-112: the Set of the target gets the caller (Set.add keeps a member)
Flagged(rejections, targetSid, s) ==
    [rejections EXCEPT ![targetSid] = @ \cup {s}]

FlagLazy(s, code, targetSid) ==
    /\ s \in open
    /\ Counted
    /\ ev' = IF HasRoom(code)
             THEN [Event("flag_lazy", s, code) EXCEPT !.ran = TRUE, !.args = <<targetSid>>]
             ELSE Event("flag_lazy", s, code)
    /\ IF HasRoom(code)
       THEN LET room1 == [rooms[code] EXCEPT !.rejections = Flagged(@, targetSid, s)]
            IN /\ rooms' = PutRoom(rooms, code, room1)
               /\ out' = {Emit(code, "rejection_update",
                               [targetSid |-> targetSid,
                                count |-> Cardinality(room1.rejections[targetSid])])}
               /\ ack' = Acked([ok |-> TRUE])
               /\ flagCasts' = [flagCasts EXCEPT ![code][targetSid][s] = @ + 1]
       ELSE /\ rooms' = rooms
            /\ out' = {}
            /\ ack' = NoAck
            /\ flagCasts' = flagCasts
    /\ UNCHANGED <<open, joinOrder, voteCasts, scorings>>

(***************************************************************************)
(* socket.on("end_round"): the scoring of lines 120-143                    *)
(***************************************************************************)
\* JS values that occur in `tally` and `maxVotes`
JsNum(k) == [type |-> "number", n |-> k]
JsStr == [type |-> "string", n |-> 0]
JsNaN == [type |-> "NaN", n |-> 0]

\* a === b for two such values: NaN equals nothing; a string never meets a string
StrictEq(a, b) == a.type = "number" /\ b.type = "number" /\ a.n = b.n

\* a threshold of half the players, without the + 1
MajorityHalf(room) == Len(room.players) \div 2

\* Math.floor(totalPlayers / 2) + 1
Majority(room) == (Len(room.players) \div 2) + 1

\* new Set(room.submissions.map((s) => s.sid))
SubmittedSids(room) == {room.submissions[i].sid : i \in 1..Len(room.submissions)}

\* the first loop: every player gets -2 or +1
Participation(room, players) ==
    [i \in 1..Len(players) |->
        [players[i] EXCEPT !.score =
            IF players[i].sid \notin SubmittedSids(room) THEN @ - 2 ELSE @ + 1]]

\* the second loop: a target with voters.size >= majority that is a player gets -2
\* (a key of room.rejections holds at least one voter, and majority >= 1)
Rejections(room, players) ==
    [i \in 1..Len(players) |->
        [players[i] EXCEPT !.score =
            IF Cardinality(room.rejections[players[i].sid]) >= Majority(room)
            THEN @ - 2 ELSE @]]

\* the keys of `tally`: the targets of the votes
TallyKeys(room) == {room.votes[v] : v \in {w \in Sids : room.votes[w] # NoVote}}

\* tally[targetSid] after the loop over room.votes.  `tally` is a plain object:
\* for a key it inherits from Object.prototype, tally[key] starts as the inherited
\* function, which is truthy, so (tally[key] || 0) + 1 is that function's source
\* text followed by "1": a string, and a string again after every further vote.
Tally(room) ==
    [t \in TallyKeys(room) |->
        IF t = ProtoKey THEN JsStr
        ELSE JsNum(Cardinality({v \in Sids : room.votes[v] = t}))]

RECURSIVE SetMax(_)
SetMax(S) == IF S = {} THEN 0
             ELSE LET x == CHOOSE y \in S : TRUE
                      m == SetMax(S \ {x})
                  IN IF x > m THEN x ELSE m

\* Math.max(0, ...Object.values(tally)): NaN when a value is not numeric
MaxVotes(tally) ==
    IF \E t \in DOMAIN tally : tally[t].type # "number" THEN JsNaN
    ELSE JsNum(SetMax({0} \cup {tally[t].n : t \in DOMAIN tally}))

\* Object.keys(tally).filter((sid) => tally[sid] === maxVotes), as a set
Winners(tally) == {t \in DOMAIN tally : StrictEq(tally[t], MaxVotes(tally))}

\* winners.forEach: a winner that is a player gets +2
Bonus(winners, players) ==
    [i \in 1..Len(players) |->
        [players[i] EXCEPT !.score = IF players[i].sid \in winners THEN @ + 2 ELSE @]]

\* a scoring that gives the bonus only to winners that were not penalised
ScoredExclusive(room) ==
    LET flagged == {t \in Targets : Cardinality(room.rejections[t]) >= Majority(room)}
    IN Bonus(Winners(Tally(room)) \ flagged,
             Rejections(room, Participation(room, room.players)))

\* room.players after the three passes
Scored(room) ==
    Bonus(Winners(Tally(room)), Rejections(room, Participation(room, room.players)))

\* an end_round that also opens the next round: round + 1, round data cleared
EndedRoomNextRound(room) ==
    [room EXCEPT !.players = Scored(room),
                 !.round = @ + 1,
                 !.submissions = << >>,
                 !.votes = [v \in Sids |-> NoVote],
                 !.rejections = [x \in Targets |-> {}]]

\* the room after lines 120-143: only the scores of the players are assigned
EndedRoom(room) == [room EXCEPT !.players = Scored(room)]

EndRound(s, code) ==
    /\ s \in open
    /\ Counted
    /\ ev' = [Event("end_round", s, code) EXCEPT !.ran = Authorized(s, code)]
    /\ IF Authorized(s, code)
       THEN /\ LET room1 == EndedRoom(rooms[code])
               IN /\ rooms' = PutRoom(rooms, code, room1)
                  /\ out' = {Emit(code, "round_results",
                                [prompt |-> room1.prompt,
                                 submissions |-> room1.submissions,
                                 votes |-> Tally(room1),
                                 winners |-> Winners(Tally(room1)),
                                 scores |-> serializeScores(room1)])}
            /\ ack' = Acked([ok |-> TRUE])
            /\ scorings' = [scorings EXCEPT ![code] =
                              IF EndedRoom(rooms[code]).players # rooms[code].players
                              THEN @ + 1 ELSE @]
       ELSE /\ rooms' = rooms
            /\ out' = {}
            /\ ack' = NoAck
            /\ scorings' = scorings
    /\ UNCHANGED <<open, joinOrder, voteCasts, flagCasts>>

(***************************************************************************)
(* The server: any connected socket may send any event at any time.        *)
(***************************************************************************)
Next ==
    \/ \E s \in open, n \in Names, c \in Codes : CreateRoom(s, n, c)
    \/ \E s \in open, c \in Codes, n \in Names : JoinRoom(s, c, n)
    \/ \E s \in open, c \in Codes : LeaveRoom(s, c)
    \/ \E s \in open, c \in Codes : StartRound(s, c)
    \/ \E s \in open, c \in Codes, u \in DataURLs : SubmitPhoto(s, c, u)
    \/ \E s \in open, c \in Codes, x \in SentTargets : VoteBest(s, c, x)
    \/ \E s \in open, c \in Codes, x \in SentTargets : FlagLazy(s, c, x)
    \/ \E s \in open, c \in Codes : EndRound(s, c)
    \/ \E s \in open : Disconnect(s)

Spec == Init /\ [][Next]_vars

(***************************************************************************)
(* The lobby: three clients that create, join, leave and disconnect.       *)
(***************************************************************************)
InitLobby ==
    /\ rooms = [c \in {} |-> NewRoom(c)]
    /\ open = Members
    /\ steps = 0
    /\ joinOrder = [c \in Codes |-> << >>]
    /\ voteCasts = [c \in Codes |-> NoVoteCasts]
    /\ flagCasts = [c \in Codes |-> NoFlagCasts]
    /\ scorings = [c \in Codes |-> 0]
    /\ ev = NoEvent
    /\ ack = NoAck
    /\ out = {}

NextLobby ==
    \/ \E s \in open, n \in Names, c \in Codes : CreateRoom(s, n, c)
    \/ \E s \in open, c \in Codes, n \in Names : JoinRoom(s, c, n)
    \/ \E s \in open, c \in Codes : LeaveRoom(s, c)
    \/ \E s \in open : Disconnect(s)

SpecLobby == InitLobby /\ [][NextLobby]_vars

(***************************************************************************)
(* The scoring of end_round on the snapshots of one room.  A snapshot is a *)
(* state the handlers reach: s1 created room AB12, the next sockets joined *)
(* it in order, s1 started a round, and then sockets submitted, voted and  *)
(* flagged (no handler checks that the sender or the target is a player).  *)
(***************************************************************************)
\* the sockets in the order they join the room of a snapshot
Joiners == <<"s1", "s2", "s3", "s4">>

\* the room after create_room by Joiners[1], join_room by Joiners[2..n] and a
\* start_round by the host
RoundOf(n) ==
    LET joined == [NewRoom("AB12") EXCEPT
                      !.hostId = Joiners[1],
                      !.players = [i \in 1..n |->
                                    [sid |-> Joiners[i], name |-> "Ann", score |-> 0]]]
    IN StartedRoom(joined, "classic", << >>, 100000, 1)

\* the submissions after the sockets of `who` submitted in the order of Joiners
SubmissionsOf(who) ==
    LET order == SelectSeq(Joiners, LAMBDA x : x \in who)
    IN [i \in 1..Len(order) |-> [sid |-> order[i], dataURL |-> "img1"]]

\* the votes of the snapshots: s1, s2, s3 each vote for s1, s2 or ProtoKey, or not
SnapshotVotes ==
    {v \in [Sids -> {NoVote, "s1", "s2", ProtoKey}] : v["s4"] = NoVote}

\* the flags of the snapshots: any sockets flagged s1; nobody or s3 and s4 flagged s2
SnapshotRejections ==
    {[t \in Targets |-> IF t = "s1" THEN f1 ELSE IF t = "s2" THEN f2 ELSE {}] :
        f1 \in SUBSET Sids, f2 \in {{}, {"s3", "s4"}}}

InitScoring ==
    /\ \E n \in 1..Len(Joiners) :
         /\ \E who \in SUBSET {Joiners[i] : i \in 1..n},
               v \in SnapshotVotes, f \in SnapshotRejections :
               /\ rooms = [c \in {"AB12"} |->
                            [RoundOf(n) EXCEPT !.submissions = SubmissionsOf(who),
                                               !.votes = v,
                                               !.rejections = f]]
               /\ voteCasts = [c \in Codes |->
                                 IF c = "AB12"
                                 THEN [s \in Sids |-> IF v[s] # NoVote THEN 1 ELSE 0]
                                 ELSE NoVoteCasts]
               /\ flagCasts = [c \in Codes |->
                                 IF c = "AB12"
                                 THEN [t \in Targets |->
                                         [s \in Sids |-> IF s \in f[t] THEN 1 ELSE 0]]
                                 ELSE NoFlagCasts]
         /\ joinOrder = [c \in Codes |-> IF c = "AB12" THEN SubSeq(Joiners, 1, n) ELSE << >>]
    /\ open = Sids
    /\ steps = 0
    /\ scorings = [c \in Codes |-> 0]
    /\ ev = NoEvent
    /\ ack = NoAck
    /\ out = {}

\* the host ends the round, again and again
NextScoring == \E c \in DOMAIN rooms : EndRound(rooms[c].hostId, c)

SpecScoring == InitScoring /\ [][NextScoring]_vars

(***************************************************************************)
(* Properties of the room table.                                           *)
(***************************************************************************)
\* the last step handled event `op`, and the handler ran past its guard
Ran(op) == ev.op = op /\ ev.ran

\* C1: every room with at least one player has a hostId that is a key of its
\* players, and every room without players has hostId null
HostIsPlayer ==
    \A c \in DOMAIN rooms :
        IF Len(rooms[c].players) = 0
        THEN rooms[c].hostId = Null
        ELSE rooms[c].hostId \in PlayerSids(rooms[c])

\* C1 witness: a disconnect left one room without players and another with some
HostIsPlayerSeen ==
    /\ Ran("disconnect")
    /\ \E c \in DOMAIN rooms : Len(rooms[c].players) = 0
    /\ \E c \in DOMAIN rooms : Len(rooms[c].players) >= 1

\* C2: when the host of a room disconnects and players remain, the new host is the
\* remaining player that joined first; when another socket disconnects, the host
\* stays
HostMigration ==
    [][ev'.op = "disconnect" =>
        \A c \in DOMAIN rooms :
            IF rooms[c].hostId = ev'.sid
            THEN Len(rooms'[c].players) >= 1 =>
                    /\ Len(joinOrder'[c]) >= 1
                    /\ rooms'[c].hostId = joinOrder'[c][1]
            ELSE rooms'[c].hostId = rooms[c].hostId]_vars

\* C2 witness: the host of a room left and two players remain
HostMigrationSeen ==
    /\ Ran("disconnect")
    /\ \E c \in ev.args[1] : Len(rooms[c].players) >= 2

\* the socket is the host of an existing room `code`
IsHostOf(s, code) == code \in DOMAIN rooms /\ rooms[code].hostId = s

\* C3: start_round and end_round for a code without a room, or from a socket that
\* is not the host, change no room, create no room and emit no broadcast
HostOnlyNoop ==
    [][(ev'.op \in {"start_round", "end_round"} /\ ~IsHostOf(ev'.sid, ev'.code)) =>
        rooms' = rooms /\ out' = {}]_vars

\* C3 witness: a player that is not the host sent end_round to its room
HostOnlyNoopSeen ==
    /\ ev.op = "end_round"
    /\ ev.code \in DOMAIN rooms
    /\ ev.sid \in PlayerSids(rooms[ev.code])
    /\ rooms[ev.code].hostId # ev.sid

\* C7: a start_round by the host adds 1 to round, sets mode, leaves submissions,
\* votes and rejections empty and keeps players, scores and hostId
StartRoundEffect ==
    [][(ev'.op = "start_round" /\ IsHostOf(ev'.sid, ev'.code)) =>
        LET r == rooms[ev'.code]
            q == rooms'[ev'.code]
        IN /\ q.round = r.round + 1
           /\ q.mode = ev'.args[1]
           /\ q.submissions = << >>
           /\ \A v \in Sids : q.votes[v] = NoVote
           /\ \A t \in Targets : q.rejections[t] = {}
           /\ q.players = r.players
           /\ q.hostId = r.hostId
           /\ \A c \in DOMAIN rooms \ {ev'.code} : rooms'[c] = rooms[c]]_vars

\* C7 witness: the second round of a room was started
StartRoundSeen ==
    /\ Ran("start_round")
    /\ rooms[ev.code].round = 2

\* the sids of a sequence of submissions, in order
SubSids(subs) == [i \in 1..Len(subs) |-> subs[i].sid]

\* no two entries of room.submissions have the same sid
OnePerSid(room) ==
    \A i, j \in 1..Len(room.submissions) :
        room.submissions[i].sid = room.submissions[j].sid => i = j

\* C8: submissions hold at most one entry per socket; a submit_photo of a socket
\* that has an entry replaces its payload in place (same length, same order), a
\* first submit appends one entry
SubmitUpsert ==
    /\ [](\A c \in DOMAIN rooms : OnePerSid(rooms[c]))
    /\ [][(ev'.op = "submit_photo" /\ ev'.code \in DOMAIN rooms) =>
            LET old == rooms[ev'.code].submissions
                new == rooms'[ev'.code].submissions
                entry == [sid |-> ev'.sid, dataURL |-> ev'.args[1]]
            IN IF \E i \in 1..Len(old) : old[i].sid = ev'.sid
               THEN /\ Len(new) = Len(old)
                    /\ SubSids(new) = SubSids(old)
                    /\ \A i \in 1..Len(old) :
                          new[i] = IF old[i].sid = ev'.sid THEN entry ELSE old[i]
               ELSE new = Append(old, entry)]_vars

\* C8 witness: a socket whose entry is followed by another one submitted again
SubmitUpsertSeen ==
    /\ Ran("submit_photo")
    /\ LET subs == rooms[ev.code].submissions
       IN /\ Len(subs) >= 2
          /\ subs[1].sid = ev.sid
          /\ subs[1].dataURL = ev.args[1]

\* C9: leave_room(code) removes the caller from the players of the room and
\* migrates the host as disconnect does for that room
LeaveRoomRemoves ==
    [][(ev'.op = "leave_room" /\ ev'.code \in DOMAIN rooms) =>
        rooms'[ev'.code] = DisconnectRoom(rooms[ev'.code], ev'.sid)]_vars

\* C10: after a disconnect the socket is neither a player nor the host of any
\* room; the rooms that did not hold it are unchanged and get no broadcast
DisconnectEverywhere ==
    [][ev'.op = "disconnect" =>
        \A c \in DOMAIN rooms' :
            /\ ev'.sid \notin PlayerSids(rooms'[c])
            /\ rooms'[c].hostId # ev'.sid
            /\ (c \in DOMAIN rooms /\ ev'.sid \notin PlayerSids(rooms[c])) =>
                  /\ rooms'[c] = rooms[c]
                  /\ \A m \in out' : m.to # c]_vars

\* C10 witness: a socket that was a player of two rooms disconnected
DisconnectEverywhereSeen ==
    /\ Ran("disconnect")
    /\ Cardinality(out) = 2

(***************************************************************************)
(* Properties of the scoring.                                              *)
(***************************************************************************)
\* the winners sent in the round_results of the last step
ReportedWinners(o) ==
    UNION {m.payload.winners : m \in {x \in o : x.event = "round_results"}}

\* the participation rule for player id
PartDelta(room, id) ==
    IF \E i \in 1..Len(room.submissions) : room.submissions[i].sid = id THEN 1 ELSE -2

\* the majority-flag rule for player id among n players
FlagDelta(room, id, n) ==
    IF Cardinality(room.rejections[id]) >= (n \div 2) + 1 THEN -2 ELSE 0

\* the vote rule for player id
WinDelta(winners, id) == IF id \in winners THEN 2 ELSE 0

\* the last step was an end_round by the host of the room
Scoring == ev'.op = "end_round" /\ IsHostOf(ev'.sid, ev'.code)

\* C4: a successful end_round changes the score of every player by the sum of the
\* participation delta, the majority-flag delta and the winner bonus, each
\* computed from the room at that moment; a flagged winner gets both -2 and +2
ScoreIsSumOfDeltas ==
    [][Scoring =>
        LET r == rooms[ev'.code]
            q == rooms'[ev'.code]
            n == Len(r.players)
        IN /\ Len(q.players) = n
           /\ \A i \in 1..n :
                /\ q.players[i].sid = r.players[i].sid
                /\ q.players[i].score =
                      r.players[i].score
                      + PartDelta(r, r.players[i].sid)
                      + FlagDelta(r, r.players[i].sid, n)
                      + WinDelta(ReportedWinners(out'), r.players[i].sid)]_vars

\* C4 witness: of three or more players, one was flagged by a majority and won
ScoreIsSumOfDeltasSeen ==
    /\ Ran("end_round")
    /\ LET r == rooms[ev.code]
       IN /\ Len(r.players) >= 3
          /\ \E i \in 1..Len(r.players) :
                /\ r.players[i].sid \in ReportedWinners(out)
                /\ FlagDelta(r, r.players[i].sid, Len(r.players)) # 0

\* what the rules other than the majority-flag rule give player i of room r, when
\* the round_results of the step report `winners`
OtherRules(r, i, winners) ==
    PartDelta(r, r.players[i].sid) + WinDelta(winners, r.players[i].sid)

\* C5: with N players at end_round, a player whose set of flaggers has at least
\* floor(N/2)+1 members loses 2 points by the flag rule, a player with fewer
\* flaggers loses nothing by it (N = 4: three flaggers penalise, two do not)
MajorityThreshold ==
    [][Scoring =>
        LET r == rooms[ev'.code]
            q == rooms'[ev'.code]
            N == Len(r.players)
        IN \A i \in 1..N :
            LET flaggers == Cardinality(r.rejections[r.players[i].sid])
                byFlagRule == q.players[i].score - r.players[i].score
                              - OtherRules(r, i, ReportedWinners(out'))
            IN /\ flaggers >= (N \div 2) + 1 => byFlagRule = -2
               /\ flaggers < (N \div 2) + 1 => byFlagRule = 0
               /\ (N = 4 /\ flaggers = 3) => byFlagRule = -2
               /\ (N = 4 /\ flaggers = 2) => byFlagRule = 0]_vars

\* C5 witness: four players, s1 with exactly three flaggers, s2 with exactly two
MajorityThresholdSeen ==
    /\ Ran("end_round")
    /\ Len(rooms[ev.code].players) = 4
    /\ Cardinality(rooms[ev.code].rejections["s1"]) = 3
    /\ Cardinality(rooms[ev.code].rejections["s2"]) = 2

\* the number of votes for target t
VotesFor(room, t) == Cardinality({v \in Sids : room.votes[v] = t})

\* the targets with the highest number of votes, if that number is positive
TopVoted(room) ==
    {t \in Targets :
        /\ VotesFor(room, t) > 0
        /\ \A u \in Targets : VotesFor(room, u) <= VotesFor(room, t)}

\* C6: the winners reported by end_round are exactly the targets whose number of
\* votes is the maximum of the round and positive (end_round leaves room.votes as
\* it was, so the votes of the state after the step are those it counted)
WinnersAreTopVoted ==
    Ran("end_round") => ReportedWinners(out) = TopVoted(rooms[ev.code])

(***************************************************************************)
(* Properties of the acknowledgements, the deadline and the room codes.    *)
(***************************************************************************)
\* C11: a start_round or end_round from a socket that is not the host of the
\* room gets a failed acknowledgement (the callback is called, and not with
\* {ok: true}), and the rooms are unchanged
NotAuthorizedAcked ==
    [][(ev'.op \in {"start_round", "end_round"} /\ ev'.code \in DOMAIN rooms
            /\ rooms[ev'.code].hostId # ev'.sid) =>
        /\ ack'.called
        /\ ack' # Acked([ok |-> TRUE])
        /\ rooms' = rooms]_vars

\* the seconds the round lasts for a durationSec field d: d when it is a positive
\* number, 30 when it is missing, zero or negative
SecondsOf(d) == IF d # << >> /\ d[1] > 0 THEN d[1] ELSE 30

\* C12: a start_round by the host sets deadline to now + durationSec seconds for
\* a positive durationSec and to now + 30 seconds for a missing, zero or negative
\* one, so the deadline is never earlier than now
DeadlineRule ==
    [][(ev'.op = "start_round" /\ ev'.ran) =>
        LET d == ev'.args[2]
            now == ev'.args[3]
            q == rooms'[ev'.code]
        IN /\ q.deadline = <<now + SecondsOf(d) * 1000>>
           /\ q.deadline[1] >= now]_vars

\* C13: create_room allocates a code that is no key of the table; it leaves the
\* host and the players of every existing room as they were, and the new room
\* has the caller as host and as its only player, with score 0
CreateRoomFresh ==
    [][ev'.op = "create_room" =>
        /\ ev'.code \notin DOMAIN rooms
        /\ \A c \in DOMAIN rooms :
              /\ rooms'[c].hostId = rooms[c].hostId
              /\ PlayerSids(rooms'[c]) = PlayerSids(rooms[c])
        /\ rooms'[ev'.code].hostId = ev'.sid
        /\ Len(rooms'[ev'.code].players) = 1
        /\ rooms'[ev'.code].players[1].sid = ev'.sid
        /\ rooms'[ev'.code].players[1].score = 0]_vars

(***************************************************************************)
(* Properties of the round data: round, submissions, votes, rejections.    *)
(***************************************************************************)
\* the last step was a start_round by the host of room c
StartedHere(c) == ev'.op = "start_round" /\ ev'.ran /\ ev'.code = c

\* every entry of the round data of room r is in room q: the submissions of r
\* are the first submissions of q (by sid), every voter of r is a voter of q,
\* every flagger of a target in r is one in q
RoundDataKept(r, q) ==
    /\ Len(q.submissions) >= Len(r.submissions)
    /\ \A i \in 1..Len(r.submissions) : q.submissions[i].sid = r.submissions[i].sid
    /\ \A v \in Sids : r.votes[v] # NoVote => q.votes[v] # NoVote
    /\ \A t \in Targets : r.rejections[t] \subseteq q.rejections[t]

\* C14: the round of a room never decreases and changes only by a start_round of
\* its host (by 1); every other event keeps round and removes no entry of
\* submissions, votes or rejections; end_round leaves all four as they were
RoundDataFrame ==
    [][\A c \in DOMAIN rooms :
        /\ c \in DOMAIN rooms'
        /\ rooms'[c].round >= rooms[c].round
        /\ StartedHere(c) => rooms'[c].round = rooms[c].round + 1
        /\ ~StartedHere(c) =>
              /\ rooms'[c].round = rooms[c].round
              /\ RoundDataKept(rooms[c], rooms'[c])
        /\ ev'.op = "end_round" =>
              /\ rooms'[c].submissions = rooms[c].submissions
              /\ rooms'[c].votes = rooms[c].votes
              /\ rooms'[c].rejections = rooms[c].rejections]_vars

\* C14 witness: the host ended round 1 of a room that holds a submission
RoundDataFrameSeen ==
    /\ Ran("end_round")
    /\ rooms[ev.code].round = 1
    /\ Len(rooms[ev.code].submissions) >= 1

(***************************************************************************)
(* Properties of the votes and the flags.                                  *)
(***************************************************************************)
\* the sockets that sent a vote_best to room c since its last start_round
VotersSince(c) == {s \in Sids : voteCasts[c][s] > 0}

\* the voters room.votes holds
VotersOf(room) == {v \in Sids : room.votes[v] # NoVote}

\* C15: room.votes holds one vote for every socket that voted since the last
\* start_round and for no other socket; a vote_best of a socket that voted
\* already replaces its target and keeps the number of votes and the votes of
\* the others; the count in vote_update is the number of distinct sockets that
\* voted since the last start_round
OneVotePerVoter ==
    /\ [](\A c \in DOMAIN rooms : VotersOf(rooms[c]) = VotersSince(c))
    /\ [][(ev'.op = "vote_best" /\ ev'.ran) =>
            LET c == ev'.code
                r == rooms[c]
                q == rooms'[c]
            IN /\ q.votes[ev'.sid] = ev'.args[1]
               /\ \A v \in Sids \ {ev'.sid} : q.votes[v] = r.votes[v]
               /\ voteCasts[c][ev'.sid] > 0 =>
                     Cardinality(VotersOf(q)) = Cardinality(VotersOf(r))
               /\ out' = {Emit(c, "vote_update",
                               [votes |-> Cardinality({s \in Sids : voteCasts'[c][s] > 0})])}]_vars

\* C15 witness: a socket voted again while another socket has a vote too
OneVotePerVoterSeen ==
    /\ Ran("vote_best")
    /\ voteCasts[ev.code][ev.sid] >= 2
    /\ Cardinality(VotersOf(rooms[ev.code])) = 2

\* the sockets that sent a flag_lazy against t to room c since its last
\* start_round
FlaggersSince(c, t) == {s \in Sids : flagCasts[c][t][s] > 0}

\* C16: the flagger set of a target holds exactly the sockets that flagged it
\* since the last start_round; a flag_lazy adds the caller to the set of its
\* target and leaves the other sets alone, and when the caller flagged that
\* target before, it leaves all sets and the count as they were; the count in
\* rejection_update is the number of distinct sockets that flagged the target
\* since the last start_round
FlagIdempotent ==
    /\ [](\A c \in DOMAIN rooms, t \in Targets :
            rooms[c].rejections[t] = FlaggersSince(c, t))
    /\ [][(ev'.op = "flag_lazy" /\ ev'.ran) =>
            LET c == ev'.code
                t == ev'.args[1]
                r == rooms[c]
                q == rooms'[c]
            IN /\ q.rejections[t] = r.rejections[t] \cup {ev'.sid}
               /\ \A u \in Targets \ {t} : q.rejections[u] = r.rejections[u]
               /\ flagCasts[c][t][ev'.sid] > 0 =>
                     /\ q.rejections = r.rejections
                     /\ \A m \in out' : m.payload.count = Cardinality(r.rejections[t])
               /\ out' = {Emit(c, "rejection_update",
                               [targetSid |-> t,
                                count |-> Cardinality({s \in Sids :
                                                        flagCasts'[c][t][s] > 0})])}]_vars

\* C16 witness: a socket flagged a target again that another socket flagged too
FlagIdempotentSeen ==
    /\ Ran("flag_lazy")
    /\ flagCasts[ev.code][ev.args[1]][ev.sid] >= 2
    /\ Cardinality(rooms[ev.code].rejections[ev.args[1]]) = 2

(***************************************************************************)
(* Properties of the store.                                                *)
(***************************************************************************)
\* the fields of a room that describe its round
RoundView(room) ==
    [round |-> room.round, mode |-> room.mode, prompt |-> room.prompt,
     deadline |-> room.deadline, submissions |-> room.submissions,
     votes |-> room.votes, rejections |-> room.rejections]

\* C17: no step removes a key of the table, and only create_room and join_room
\* add one (their code); a disconnect keeps every room, also one it leaves
\* without players, with its round, mode and round data; start_round,
\* submit_photo, vote_best, flag_lazy and end_round for a code that is no key
\* leave the table as it was and emit nothing
RoomsOnlyGrow ==
    [][/\ DOMAIN rooms \subseteq DOMAIN rooms'
       /\ DOMAIN rooms' # DOMAIN rooms =>
             /\ ev'.op \in {"create_room", "join_room"}
             /\ DOMAIN rooms' = DOMAIN rooms \cup {ev'.code}
       /\ ev'.op = "disconnect" =>
             \A c \in DOMAIN rooms : RoundView(rooms'[c]) = RoundView(rooms[c])
       /\ (/\ ev'.op \in {"start_round", "submit_photo", "vote_best",
                          "flag_lazy", "end_round"}
           /\ ev'.code \notin DOMAIN rooms) =>
             /\ rooms' = rooms
             /\ out' = {}]_vars

\* C17 witness: a room that ran a round and lost its last player is in the
\* table, and a vote_best for a code without a room was handled
RoomsOnlyGrowSeen ==
    /\ ev.op = "vote_best"
    /\ ev.code \notin DOMAIN rooms
    /\ \E c \in DOMAIN rooms :
          /\ Len(rooms[c].players) = 0
          /\ rooms[c].round >= 1

(***************************************************************************)
(* Properties of the scores over the life of a room.                       *)
(***************************************************************************)
\* the score of player id of a room
ScoreOf(room, id) == room.players[CHOOSE i \in IdxOf(room.players, id) : TRUE].score

\* C18: a step that is no end_round by the host of room c leaves the score of
\* every socket that is a player of c before and after the step as it was
ScorePersists ==
    [][\A c \in DOMAIN rooms :
        ~(ev'.op = "end_round" /\ ev'.ran /\ ev'.code = c) =>
            \A id \in PlayerSids(rooms[c]) \cap PlayerSids(rooms'[c]) :
                ScoreOf(rooms'[c], id) = ScoreOf(rooms[c], id)]_vars

\* C19: an end_round changes scores only in a room whose round is at least 1
\* (not in the lobby) and only when no end_round changed the scores of the room
\* since its last start_round
ScoredOncePerRound ==
    [][(ev'.op = "end_round" /\ ev'.ran
            /\ rooms'[ev'.code].players # rooms[ev'.code].players) =>
        /\ rooms[ev'.code].round >= 1
        /\ scorings[ev'.code] = 0]_vars

\* C20: an end_round takes the 2 points of the flag rule from a player only if
\* more than half of the players of the room at that moment are among the
\* flaggers of that player: flaggers that are no players of the room (they left
\* or never joined) do not count
PenaltyNeedsPlayerMajority ==
    [][Scoring =>
        LET r == rooms[ev'.code]
            q == rooms'[ev'.code]
            N == Len(r.players)
        IN \A i \in 1..N :
            LET byPlayers == r.rejections[r.players[i].sid] \cap PlayerSids(r)
                byFlagRule == q.players[i].score - r.players[i].score
                              - OtherRules(r, i, ReportedWinners(out'))
            IN byFlagRule # 0 => 2 * Cardinality(byPlayers) > N]_vars

====
